---- MODULE Spec2Model ----
(***************************************************************************)
(* A model of bustub's SkipList (src/primer/skiplist.cpp): the header      *)
(* node, the nodes with their per-level forward links, the live count and  *)
(* the height sampler, with Insert, Erase, Contains and Clear translated   *)
(* statement by statement.                                                 *)
(***************************************************************************)
EXTENDS Integers, Sequences, FiniteSets, TLC

\* ------------------------------------------------------------------ bounds
\* Keys are the integers 1..MaxKey (the instantiation SkipList<int>).
MaxKey == 3
\* The template parameter MaxHeight of the container.
MaxHeight == 3
\* How many sampler outputs a seed's stream is followed for.
MaxDraws == 5

Keys == 1..MaxKey
\* Addresses a SkipNode made by make_shared can live at: one more than there
\* are keys.
Addr == 1..(MaxKey + 1)
\* Raw outputs of rng_() the model draws from: a multiple of the branching
\* factor and a value that is not one.
DrawVals == {4, 5}
\* The raw outputs RandomHeight is tried on by itself.
RawVals == {0, 1, 4, 5, 8}

\* --------------------------------------------------------------- constants
branching_factor == 4
nullptr == 0
\* The address of the header node, fixed for the container's lifetime.
header_ == -1
\* What Next and SetNext report for a level that is out of range.
Thrown == -2
\* The bottom level, the one every node is linked at.
LOWEST_LEVEL == 0

VARIABLES
    heap,     \* address -> [key_, links_]: the live SkipNode objects, header included
    size_,    \* the live count
    rng_,     \* the sampler's state: the outputs its next calls will give
    op,       \* the last call made on the container
    arg,      \* its key argument (0 when it takes none)
    ret,      \* its result (FALSE when it returns none)
    status,   \* how it ended: "ok", "throw" (out of range), "ub", "hang"
    depth,    \* the deepest nesting of node destructors it caused
    freed,    \* how many nodes it destroyed
    held,     \* how many links the nodes it destroyed still held when destroyed
    set,      \* the mathematical set run side by side with the container
    setRet,   \* what that set answers to the same call
    snap,     \* <<the level-0 keys before the last Insert>>, kept over an Erase of
              \* the same key that follows it at once; <<>> otherwise
    other     \* a second container given the same calls: [heap, size_, rng_, ret,
              \* status] (<<>> where there is none)

vars == <<heap, size_, rng_, op, arg, ret, status, depth, freed, held, set, setRet,
          snap, other>>

\* ------------------------------------------------------------------- nodes
Max(a, b) == IF a > b THEN a ELSE b

\* Min as it would be had the splice bounded its levels by the new node's
\* height alone.
MinFirst(a, b) == a

\* std::min
Min(a, b) == IF a < b THEN a ELSE b

\* compare_(a, b): std::less<int>, the comparator of SkipList<int>.
compare_(a, b) == a < b

\* SkipNode::Height
Height(h, p) == Len(h[p].links_)

\* SkipNode::Key
Key(h, p) == h[p].key_

\* SkipNode::Next (Next names the next-state relation below)
SkipNodeNext(h, p, level) ==
    IF level >= Len(h[p].links_) THEN Thrown ELSE h[p].links_[level + 1]

\* SetNext as it would be if it clamped the level to the node's last one.
SetNextClamped(s, p, level, node) ==
    IF s.status # "ok" THEN s
    ELSE [s EXCEPT !.heap[p].links_[Min(level, Len(s.heap[p].links_) - 1) + 1] = node]

\* SkipNode::SetNext on a machine state s = [heap, status]: once an
\* exception is in flight the statements after it do not run.
SetNext(s, p, level, node) ==
    IF s.status # "ok" THEN s
    ELSE IF level >= Len(s.heap[p].links_) THEN [s EXCEPT !.status = "throw"]
    ELSE [s EXCEPT !.heap[p].links_[level + 1] = node]

\* SkipNode(height, key): `height` absent links.
NewNode(height, key) == [key_ |-> key, links_ |-> [l \in 1..height |-> nullptr]]

\* A walk that visits more nodes than there are live objects is in a cycle.
Fuel(h) == Cardinality(DOMAIN h)

\* ------------------------------------------------------------ shared_ptr
\* Some live object's link, or one of the local shared_ptrs in `pins`, holds p.
Referenced(h, p, pins) ==
    \/ p \in pins
    \/ \E q \in DOMAIN h : \E l \in 1..Len(h[q].links_) : h[q].links_[l] = p

\* How many of the links are not empty.
Holding(links) == Cardinality({l \in 1..Len(links) : links[l] # nullptr})

RECURSIVE Destroy(_, _, _), DestroyLinks(_, _, _, _, _, _)
\* ~SkipNode of p, run when the last shared_ptr to p goes away: the links are
\* released one by one, and a link that was the last owner of its target
\* destroys it from inside this destructor. Gives the heap left, the nesting
\* depth reached and the number of links the destroyed nodes still held.
Destroy(h, p, pins) ==
    LET r == DestroyLinks([q \in DOMAIN h \ {p} |-> h[q]], h[p].links_, 1, 0,
                          Holding(h[p].links_), pins)
    IN  [heap |-> r.heap, depth |-> r.depth + 1, held |-> r.held]

DestroyLinks(h, links, l, d, n, pins) ==
    IF l > Len(links) THEN [heap |-> h, depth |-> d, held |-> n]
    ELSE LET t == links[l] IN
         IF t # nullptr /\ t # header_ /\ t \in DOMAIN h /\ ~Referenced(h, t, pins)
         THEN LET r == Destroy(h, t, pins)
              IN  DestroyLinks(r.heap, links, l + 1, Max(d, r.depth), n + r.held, pins)
         ELSE DestroyLinks(h, links, l + 1, d, n, pins)

\* A local shared_ptr to p goes away, on machine state s = [heap, status,
\* depth, held], while the locals in `pins` still hold their objects.
Release(s, p, pins) ==
    IF p = nullptr \/ p = header_ \/ p \notin DOMAIN s.heap \/ Referenced(s.heap, p, pins)
    THEN s
    ELSE LET r == Destroy(s.heap, p, pins)
         IN  [s EXCEPT !.heap = r.heap, !.depth = Max(s.depth, r.depth),
                       !.held = s.held + r.held]

\* ---------------------------------------------------------------- Contains
RECURSIVE ContainsWalkNoBreak(_, _, _, _, _)
\* ContainsWalk without the `if (compare_(key, nxt_key)) break`: any next key
\* that is not less than the key counts as a match.
ContainsWalkNoBreak(h, cur_ptr, i, key, fuel) ==
    LET nxt_ptr == SkipNodeNext(h, cur_ptr, i) IN
    IF nxt_ptr = Thrown
    THEN [status |-> "throw", found |-> FALSE, cur_ptr |-> cur_ptr]
    ELSE IF nxt_ptr = nullptr
    THEN [status |-> "ok", found |-> FALSE, cur_ptr |-> cur_ptr]
    ELSE LET nxt_key == Key(h, nxt_ptr) IN
         IF ~compare_(nxt_key, key)
         THEN [status |-> "ok", found |-> TRUE, cur_ptr |-> cur_ptr]
         ELSE IF fuel = 0
         THEN [status |-> "hang", found |-> FALSE, cur_ptr |-> cur_ptr]
         ELSE ContainsWalkNoBreak(h, nxt_ptr, i, key, fuel - 1)

RECURSIVE ContainsWalk(_, _, _, _, _)
\* The `while (true)` of Contains at level i, from cur_ptr.
ContainsWalk(h, cur_ptr, i, key, fuel) ==
    LET nxt_ptr == SkipNodeNext(h, cur_ptr, i) IN
    IF nxt_ptr = Thrown
    THEN [status |-> "throw", found |-> FALSE, cur_ptr |-> cur_ptr]
    ELSE IF nxt_ptr = nullptr
    THEN [status |-> "ok", found |-> FALSE, cur_ptr |-> cur_ptr]
    ELSE LET nxt_key == Key(h, nxt_ptr) IN
         IF compare_(key, nxt_key)
         THEN [status |-> "ok", found |-> FALSE, cur_ptr |-> cur_ptr]
         ELSE IF ~compare_(nxt_key, key)
         THEN [status |-> "ok", found |-> TRUE, cur_ptr |-> cur_ptr]
         ELSE IF fuel = 0
         THEN [status |-> "hang", found |-> FALSE, cur_ptr |-> cur_ptr]
         ELSE ContainsWalk(h, nxt_ptr, i, key, fuel - 1)

RECURSIVE ContainsFromAboveBottom(_, _, _, _)
\* ContainsFrom with the loop test `i > 0`: level 0 is never scanned.
ContainsFromAboveBottom(h, cur_ptr, i, key) ==
    IF i < 1 THEN [status |-> "ok", ret |-> FALSE]
    ELSE LET w == ContainsWalk(h, cur_ptr, i, key, Fuel(h)) IN
         IF w.status # "ok" THEN [status |-> w.status, ret |-> FALSE]
         ELSE IF w.found THEN [status |-> "ok", ret |-> TRUE]
         ELSE ContainsFromAboveBottom(h, w.cur_ptr, i - 1, key)

RECURSIVE ContainsFrom(_, _, _, _)
\* The `for (int i = MaxHeight - 1; i >= 0; --i)` of Contains.
ContainsFrom(h, cur_ptr, i, key) ==
    IF i < 0 THEN [status |-> "ok", ret |-> FALSE]
    ELSE LET w == ContainsWalk(h, cur_ptr, i, key, Fuel(h)) IN
         IF w.status # "ok" THEN [status |-> w.status, ret |-> FALSE]
         ELSE IF w.found THEN [status |-> "ok", ret |-> TRUE]
         ELSE ContainsFrom(h, w.cur_ptr, i - 1, key)

\* Contains as it would be if reading the header's top link moved it out.
ContainsMovesLink(c, key) ==
    LET r == ContainsFrom(c.heap, header_, MaxHeight - 1, key)
    IN  [heap |-> [c.heap EXCEPT ![header_].links_[MaxHeight] = nullptr],
         size_ |-> c.size_, rng_ |-> c.rng_,
         ret |-> r.ret, status |-> r.status, depth |-> 0, held |-> 0]

\* Contains as it would be if it never reported a match.
ContainsNever(c, key) ==
    [heap |-> c.heap, size_ |-> c.size_, rng_ |-> c.rng_,
     ret |-> FALSE, status |-> "ok", depth |-> 0, held |-> 0]

\* SkipList::Contains on container state c = [heap, size_, rng_]: the state
\* it leaves, its result and how it ended.
Contains(c, key) ==
    LET r == ContainsFrom(c.heap, header_, MaxHeight - 1, key)
    IN  [heap |-> c.heap, size_ |-> c.size_, rng_ |-> c.rng_,
         ret |-> r.ret, status |-> r.status, depth |-> 0, held |-> 0]

\* ------------------------------------------------------------ RandomHeight
RECURSIVE RandomHeightLoopDrawsFirst(_, _)
\* RandomHeightLoop with the operands of && exchanged,
\* `(rng_() % branching_factor == 0) && height < MaxHeight`: the draw comes
\* before the test of the height.
RandomHeightLoopDrawsFirst(height, rng) ==
    IF Head(rng) % branching_factor = 0 /\ height < MaxHeight
    THEN RandomHeightLoopDrawsFirst(height + 1, Tail(rng))
    ELSE [height |-> height, rng_ |-> Tail(rng)]

RECURSIVE RandomHeightLoop(_, _)
\* `while (height < MaxHeight && (rng_() % branching_factor == 0)) height++`:
\* a draw is taken exactly when height < MaxHeight.
RandomHeightLoop(height, rng) ==
    IF ~(height < MaxHeight) THEN [height |-> height, rng_ |-> rng]
    ELSE IF Head(rng) % branching_factor = 0
    THEN RandomHeightLoop(height + 1, Tail(rng))
    ELSE [height |-> height, rng_ |-> Tail(rng)]

\* SkipList::RandomHeight: the height and the sampler state left.
RandomHeight(rng) == RandomHeightLoop(1, rng)

\* ------------------------------------------------------------------ Insert
\* Push as it would be if the addresses were compared by order,
\* `nodes.top() < cur_ptr`, in place of by identity.
PushByAddress(nodes, cur_ptr) ==
    IF nodes = <<>> \/ nodes[Len(nodes)] < cur_ptr THEN Append(nodes, cur_ptr) ELSE nodes

\* `if (nodes.empty() or cur_ptr != nodes.top()) nodes.push(cur_ptr)`; the
\* top of the stack is the last element.
Push(nodes, cur_ptr) ==
    IF nodes = <<>> \/ cur_ptr # nodes[Len(nodes)] THEN Append(nodes, cur_ptr) ELSE nodes

RECURSIVE InsertWalkReversed(_, _, _, _, _)
\* InsertWalk with the comparator's arguments swapped.
InsertWalkReversed(h, cur_ptr, i, key, fuel) ==
    LET nxt_ptr == SkipNodeNext(h, cur_ptr, i) IN
    IF nxt_ptr = Thrown THEN [status |-> "throw", cur_ptr |-> cur_ptr]
    ELSE IF nxt_ptr = nullptr \/ compare_(Key(h, nxt_ptr), key)
    THEN [status |-> "ok", cur_ptr |-> cur_ptr]
    ELSE IF fuel = 0 THEN [status |-> "hang", cur_ptr |-> cur_ptr]
    ELSE InsertWalkReversed(h, nxt_ptr, i, key, fuel - 1)

RECURSIVE InsertWalk(_, _, _, _, _)
\* The `while (true)` of Insert at level i, from cur_ptr.
InsertWalk(h, cur_ptr, i, key, fuel) ==
    LET nxt_ptr == SkipNodeNext(h, cur_ptr, i) IN
    IF nxt_ptr = Thrown THEN [status |-> "throw", cur_ptr |-> cur_ptr]
    ELSE IF nxt_ptr = nullptr \/ compare_(key, Key(h, nxt_ptr))
    THEN [status |-> "ok", cur_ptr |-> cur_ptr]
    ELSE IF fuel = 0 THEN [status |-> "hang", cur_ptr |-> cur_ptr]
    ELSE InsertWalk(h, nxt_ptr, i, key, fuel - 1)

RECURSIVE InsertScan(_, _, _, _, _)
\* The `for (int i = MaxHeight - 1; i >= 0; --i)` of Insert: the stack of
\* predecessors it leaves.
InsertScan(h, cur_ptr, i, key, nodes) ==
    IF i < 0 THEN [status |-> "ok", nodes |-> nodes]
    ELSE LET w == InsertWalk(h, cur_ptr, i, key, Fuel(h)) IN
         IF w.status # "ok" THEN [status |-> w.status, nodes |-> nodes]
         ELSE InsertScan(h, w.cur_ptr, i - 1, key, Push(nodes, w.cur_ptr))

RECURSIVE InsertBandDropsTail(_, _, _, _, _)
\* InsertBand without `(*to_insert).SetNext(level, nxt_node)`.
InsertBandDropsTail(s, node, to_insert, level, height) ==
    IF s.status # "ok" \/ ~(level < Min(height, Height(s.heap, node)))
    THEN [s |-> s, level |-> level]
    ELSE LET nxt_node == SkipNodeNext(s.heap, node, level) IN
         IF nxt_node = Thrown
         THEN [s |-> [s EXCEPT !.status = "throw"], level |-> level]
         ELSE LET s1 == SetNext(s, node, level, to_insert)
              IN  InsertBandDropsTail([s1 EXCEPT !.used = Append(@, node)],
                                      node, to_insert, level + 1, height)

RECURSIVE InsertBandSelfLoop(_, _, _, _, _)
\* InsertBand reading the successor after the predecessor was relinked,
\* `(*to_insert).SetNext(level, (*node).Next(level))`.
InsertBandSelfLoop(s, node, to_insert, level, height) ==
    IF s.status # "ok" \/ ~(level < Min(height, Height(s.heap, node)))
    THEN [s |-> s, level |-> level]
    ELSE LET s1 == SetNext(s, node, level, to_insert)
             nxt_node == SkipNodeNext(s1.heap, node, level)
         IN  IF nxt_node = Thrown
             THEN [s |-> [s EXCEPT !.status = "throw"], level |-> level]
             ELSE InsertBandSelfLoop([SetNext(s1, to_insert, level, nxt_node)
                                         EXCEPT !.used = Append(@, node)],
                                     node, to_insert, level + 1, height)

RECURSIVE InsertBandUnbounded(_, _, _, _, _)
\* InsertBand going on while `level < height`, whatever the height of the
\* popped node.
InsertBandUnbounded(s, node, to_insert, level, height) ==
    IF s.status # "ok" \/ ~(level < height)
    THEN [s |-> s, level |-> level]
    ELSE LET nxt_node == SkipNodeNext(s.heap, node, level) IN
         IF nxt_node = Thrown
         THEN [s |-> [s EXCEPT !.status = "throw"], level |-> level]
         ELSE LET s1 == SetNext(SetNext(s, node, level, to_insert),
                                to_insert, level, nxt_node)
              IN  InsertBandUnbounded([s1 EXCEPT !.used = Append(@, node)],
                                      node, to_insert, level + 1, height)

RECURSIVE InsertBand(_, _, _, _, _)
\* `while (level < std::min(height, (*node).Height()))` of Insert: the
\* machine state and the level it stops at. s.used lists, level by level,
\* the popped node the level was spliced at.
InsertBand(s, node, to_insert, level, height) ==
    IF s.status # "ok" \/ ~(level < Min(height, Height(s.heap, node)))
    THEN [s |-> s, level |-> level]
    ELSE LET nxt_node == SkipNodeNext(s.heap, node, level) IN
         IF nxt_node = Thrown
         THEN [s |-> [s EXCEPT !.status = "throw"], level |-> level]
         ELSE LET s1 == SetNext(SetNext(s, node, level, to_insert),
                                to_insert, level, nxt_node)
              IN  InsertBand([s1 EXCEPT !.used = Append(@, node)],
                             node, to_insert, level + 1, height)

RECURSIVE InsertSplice(_, _, _, _, _)
\* `while (level < height)` of Insert: top() and pop() of an empty stack are
\* undefined.
InsertSplice(s, nodes, to_insert, level, height) ==
    IF s.status # "ok" \/ ~(level < height) THEN s
    ELSE IF nodes = <<>> THEN [s EXCEPT !.status = "ub"]
    ELSE LET b == InsertBand(s, nodes[Len(nodes)], to_insert, level, height)
         IN  InsertSplice(b.s, SubSeq(nodes, 1, Len(nodes) - 1), to_insert,
                          b.level, height)

\* The address make_shared gives the new node: one no live object holds.
\* Which one is the allocator's choice and the program never looks at it;
\* here the slot numbered like the key when it is free, else the lowest.
Alloc(h, key) ==
    LET free == Addr \ DOMAIN h IN
    IF key \in free THEN key ELSE CHOOSE a \in free : \A b \in free : a <= b

\* Insert with `auto height = RandomHeight()` moved to the top of the
\* function, before the test for a key that is there already.
InsertDrawsFirst(c, key) ==
    LET rh == RandomHeight(c.rng_)
        q == Contains(c, key) IN
    IF q.status # "ok" \/ q.ret THEN [q EXCEPT !.ret = FALSE, !.rng_ = rh.rng_]
    ELSE LET sc == InsertScan(c.heap, header_, MaxHeight - 1, key, <<>>) IN
    IF sc.status # "ok" THEN [q EXCEPT !.status = sc.status, !.rng_ = rh.rng_]
    ELSE LET to_insert == Alloc(c.heap, key)
             h1 == [a \in DOMAIN c.heap \cup {to_insert} |->
                      IF a = to_insert THEN NewNode(rh.height, key) ELSE c.heap[a]]
             sp == InsertSplice([heap |-> h1, status |-> "ok", depth |-> 0, held |-> 0,
                                 used |-> <<>>],
                                sc.nodes, to_insert, 0, rh.height)
             s == Release(sp, to_insert, {})
         IN  [heap |-> s.heap,
              size_ |-> IF s.status = "ok" THEN c.size_ + 1 ELSE c.size_,
              rng_ |-> rh.rng_,
              ret |-> s.status = "ok", status |-> s.status, depth |-> s.depth,
              held |-> s.held, used |-> s.used]

\* SkipList::Insert on container state c = [heap, size_, rng_].
Insert(c, key) ==
    LET q == Contains(c, key) IN
    IF q.status # "ok" \/ q.ret THEN [q EXCEPT !.ret = FALSE]
    ELSE LET sc == InsertScan(c.heap, header_, MaxHeight - 1, key, <<>>) IN
    IF sc.status # "ok" THEN [q EXCEPT !.status = sc.status]
    ELSE LET rh == RandomHeight(c.rng_)
             to_insert == Alloc(c.heap, key)
             h1 == [a \in DOMAIN c.heap \cup {to_insert} |->
                      IF a = to_insert THEN NewNode(rh.height, key) ELSE c.heap[a]]
             sp == InsertSplice([heap |-> h1, status |-> "ok", depth |-> 0, held |-> 0,
                                 used |-> <<>>],
                                sc.nodes, to_insert, 0, rh.height)
             s == Release(sp, to_insert, {})
         IN  [heap |-> s.heap,
              size_ |-> IF s.status = "ok" THEN c.size_ + 1 ELSE c.size_,
              rng_ |-> rh.rng_,
              ret |-> s.status = "ok", status |-> s.status, depth |-> s.depth,
              held |-> s.held, used |-> s.used]

\* ------------------------------------------------------------------- Erase
RECURSIVE EraseWalk(_, _, _, _, _, _)
\* The `while (true)` of Erase at level i, from cur_ptr.
EraseWalk(h, cur_ptr, i, key, fuel, to_erase) ==
    LET nxt_ptr == SkipNodeNext(h, cur_ptr, i) IN
    IF nxt_ptr = Thrown
    THEN [status |-> "throw", cur_ptr |-> cur_ptr, to_erase |-> to_erase]
    ELSE IF nxt_ptr = nullptr
    THEN [status |-> "ok", cur_ptr |-> cur_ptr, to_erase |-> to_erase]
    ELSE LET nxt_key == Key(h, nxt_ptr) IN
         IF compare_(key, nxt_key)
         THEN [status |-> "ok", cur_ptr |-> cur_ptr, to_erase |-> to_erase]
         ELSE IF compare_(nxt_key, key)
         THEN IF fuel = 0
              THEN [status |-> "hang", cur_ptr |-> cur_ptr, to_erase |-> to_erase]
              ELSE EraseWalk(h, nxt_ptr, i, key, fuel - 1, to_erase)
         ELSE [status |-> "ok", cur_ptr |-> cur_ptr, to_erase |-> nxt_ptr]

RECURSIVE EraseScan(_, _, _, _, _, _)
\* The `for (int i = MaxHeight - 1; i >= 0; --i)` of Erase: the stack of
\* predecessors and the node to erase.
EraseScan(h, cur_ptr, i, key, nodes, to_erase) ==
    IF i < 0 THEN [status |-> "ok", nodes |-> nodes, to_erase |-> to_erase]
    ELSE LET w == EraseWalk(h, cur_ptr, i, key, Fuel(h), to_erase) IN
         IF w.status # "ok"
         THEN [status |-> w.status, nodes |-> nodes, to_erase |-> to_erase]
         ELSE EraseScan(h, w.cur_ptr, i - 1, key, Push(nodes, w.cur_ptr), w.to_erase)

RECURSIVE EraseBandFromNode(_, _, _, _, _)
\* EraseBand reading the successor from the predecessor, `(*node).Next(level)`,
\* in place of the node to erase.
EraseBandFromNode(s, node, to_erase, level, height) ==
    IF s.status # "ok" \/ ~(level < Min(height, Height(s.heap, node)))
    THEN [s |-> s, level |-> level]
    ELSE LET nxt_node == SkipNodeNext(s.heap, node, level) IN
         IF nxt_node = Thrown
         THEN [s |-> [s EXCEPT !.status = "throw"], level |-> level]
         ELSE EraseBandFromNode(SetNext(SetNext(s, to_erase, level, nullptr),
                                        node, level, nxt_node),
                                node, to_erase, level + 1, height)

RECURSIVE EraseBandKeepsLinks(_, _, _, _, _)
\* EraseBand without `(*to_erase).SetNext(level, nullptr)`.
EraseBandKeepsLinks(s, node, to_erase, level, height) ==
    IF s.status # "ok" \/ ~(level < Min(height, Height(s.heap, node)))
    THEN [s |-> s, level |-> level]
    ELSE LET nxt_node == SkipNodeNext(s.heap, to_erase, level) IN
         IF nxt_node = Thrown
         THEN [s |-> [s EXCEPT !.status = "throw"], level |-> level]
         ELSE EraseBandKeepsLinks(SetNext(s, node, level, nxt_node),
                                  node, to_erase, level + 1, height)

RECURSIVE EraseBand(_, _, _, _, _)
\* `while (level < std::min(height, (*node).Height()))` of Erase.
EraseBand(s, node, to_erase, level, height) ==
    IF s.status # "ok" \/ ~(level < Min(height, Height(s.heap, node)))
    THEN [s |-> s, level |-> level]
    ELSE LET nxt_node == SkipNodeNext(s.heap, to_erase, level) IN
         IF nxt_node = Thrown
         THEN [s |-> [s EXCEPT !.status = "throw"], level |-> level]
         ELSE EraseBand(SetNext(SetNext(s, to_erase, level, nullptr),
                                node, level, nxt_node),
                        node, to_erase, level + 1, height)

RECURSIVE EraseUnspliceFromBottom(_, _, _, _, _)
\* EraseUnsplice with the record read as a queue, the first node pushed
\* coming out first.
EraseUnspliceFromBottom(s, nodes, to_erase, level, height) ==
    IF s.status # "ok" \/ ~(level < height) THEN s
    ELSE IF nodes = <<>> THEN [s EXCEPT !.status = "ub"]
    ELSE LET b == EraseBand(s, nodes[1], to_erase, level, height)
         IN  EraseUnspliceFromBottom(b.s, Tail(nodes), to_erase, b.level, height)

RECURSIVE EraseUnsplice(_, _, _, _, _)
\* `while (level < height)` of Erase.
EraseUnsplice(s, nodes, to_erase, level, height) ==
    IF s.status # "ok" \/ ~(level < height) THEN s
    ELSE IF nodes = <<>> THEN [s EXCEPT !.status = "ub"]
    ELSE LET b == EraseBand(s, nodes[Len(nodes)], to_erase, level, height)
         IN  EraseUnsplice(b.s, SubSeq(nodes, 1, Len(nodes) - 1), to_erase,
                           b.level, height)

\* SkipList::Erase on container state c = [heap, size_, rng_]. Dereferencing
\* a to_erase the scan left empty is undefined.
Erase(c, key) ==
    LET q == Contains(c, key) IN
    IF q.status # "ok" \/ ~q.ret THEN [q EXCEPT !.ret = FALSE]
    ELSE LET sc == EraseScan(c.heap, header_, MaxHeight - 1, key, <<>>, nullptr) IN
    IF sc.status # "ok" THEN [q EXCEPT !.ret = FALSE, !.status = sc.status]
    ELSE IF sc.to_erase = nullptr THEN [q EXCEPT !.ret = FALSE, !.status = "ub"]
    ELSE LET us == EraseUnsplice([heap |-> c.heap, status |-> "ok", depth |-> 0, held |-> 0],
                                 sc.nodes, sc.to_erase, 0,
                                 Height(c.heap, sc.to_erase))
             s == Release(us, sc.to_erase, {})
         IN  [heap |-> s.heap,
              size_ |-> IF s.status = "ok" THEN c.size_ - 1 ELSE c.size_,
              rng_ |-> c.rng_,
              ret |-> s.status = "ok", status |-> s.status, depth |-> s.depth,
              held |-> s.held]

\* ------------------------------------------------------------ Drop, Clear
\* DropWalk as it would be if the chain were let go in one piece: the header's
\* link is reset and the first node's destructor is left to release the rest.
DropWalkCascade(s, curr, i, fuel) == Release(s, curr, {})

RECURSIVE DropWalk(_, _, _, _)
\* `while (curr != nullptr) curr = std::move(curr->links_[i])`: the link is
\* moved out of the node (and left empty), then the node `curr` held is let
\* go. links_[i] is an unchecked vector access.
DropWalk(s, curr, i, fuel) ==
    IF s.status # "ok" \/ curr = nullptr THEN s
    ELSE IF i >= Height(s.heap, curr) THEN [s EXCEPT !.status = "ub"]
    ELSE IF fuel = 0 THEN [s EXCEPT !.status = "hang"]
    ELSE LET nxt == s.heap[curr].links_[i + 1]
             s1 == [s EXCEPT !.heap[curr].links_[i + 1] = nullptr]
         IN  DropWalk(Release(s1, curr, {nxt}), nxt, i, fuel - 1)

RECURSIVE DropFromBelowTop(_, _)
\* DropFrom with the loop stopping one level short, `i < MaxHeight - 1`.
DropFromBelowTop(s, i) ==
    IF s.status # "ok" \/ ~(i < MaxHeight - 1) THEN s
    ELSE LET curr == s.heap[header_].links_[i + 1]
             s1 == [s EXCEPT !.heap[header_].links_[i + 1] = nullptr]
         IN  DropFromBelowTop(DropWalk(s1, curr, i, Fuel(s.heap)), i + 1)

RECURSIVE DropFrom(_, _)
\* `for (size_t i = 0; i < MaxHeight; i++)` of Drop.
DropFrom(s, i) ==
    IF s.status # "ok" \/ ~(i < MaxHeight) THEN s
    ELSE LET curr == s.heap[header_].links_[i + 1]
             s1 == [s EXCEPT !.heap[header_].links_[i + 1] = nullptr]
         IN  DropFrom(DropWalk(s1, curr, i, Fuel(s.heap)), i + 1)

\* SkipList::Drop
Drop(s) == DropFrom(s, 0)

\* Clear without `size_ = 0`.
ClearKeepsSize(c) ==
    LET s == Drop([heap |-> c.heap, status |-> "ok", depth |-> 0, held |-> 0])
    IN  [heap |-> s.heap, size_ |-> c.size_, rng_ |-> c.rng_,
         ret |-> FALSE, status |-> s.status, depth |-> s.depth, held |-> s.held]

\* SkipList::Clear on container state c = [heap, size_, rng_].
Clear(c) ==
    LET s == Drop([heap |-> c.heap, status |-> "ok", depth |-> 0, held |-> 0])
    IN  [heap |-> s.heap, size_ |-> 0, rng_ |-> c.rng_,
         ret |-> FALSE, status |-> s.status, depth |-> s.depth, held |-> s.held]

RECURSIVE PrintWalk(_, _, _)
\* `while (node != nullptr)` of Print: one line per node goes to the standard
\* output, which is no part of the state; Key and Height cannot fail.
PrintWalk(h, node, fuel) ==
    IF node = nullptr THEN "ok"
    ELSE IF fuel = 0 THEN "hang"
    ELSE LET nxt == SkipNodeNext(h, node, LOWEST_LEVEL) IN
         IF nxt = Thrown THEN "throw" ELSE PrintWalk(h, nxt, fuel - 1)

\* SkipList::Print on container state c = [heap, size_, rng_].
SkipListPrint(c) ==
    LET node == SkipNodeNext(c.heap, header_, LOWEST_LEVEL)
    IN  [heap |-> c.heap, size_ |-> c.size_, rng_ |-> c.rng_, ret |-> FALSE,
         status |-> IF node = Thrown THEN "throw" ELSE PrintWalk(c.heap, node, Fuel(c.heap)),
         depth |-> 0, held |-> 0]

\* SkipList::Size and SkipList::Empty
Size(c) == c.size_
Empty(c) == c.size_ = 0

\* ----------------------------------------------------------- the container
\* The container's state as the operations take it.
Cur == [heap |-> heap, size_ |-> size_, rng_ |-> rng_]

RECURSIVE ChainFrom(_, _, _, _)
\* The addresses met by following the level-L links from p, p excluded; a
\* walk longer than the number of live objects is cut off after one repeat.
ChainFrom(h, p, L, fuel) ==
    LET n == SkipNodeNext(h, p, L) IN
    IF n = Thrown \/ n = nullptr \/ n \notin DOMAIN h \/ fuel = 0 THEN <<>>
    ELSE <<n>> \o ChainFrom(h, n, L, fuel - 1)

\* The chain reached from the header at level L.
Chain(h, L) == ChainFrom(h, header_, L, Fuel(h))

\* The keys of that chain, in order.
ChainKeys(h, L) == LET c == Chain(h, L) IN [j \in 1..Len(c) |-> Key(h, c[j])]

\* The sampler states a call can leave: the outputs not yet drawn, followed
\* by as many further outputs as were drawn.
Refill(rng) == {rng \o t : t \in [1..(MaxHeight - 1 - Len(rng)) -> DrawVals]}

\* The header the constructor builds: MaxHeight absent links, no key.
Init ==
    /\ heap = [a \in {header_} |-> NewNode(MaxHeight, 0)]
    /\ size_ = 0
    /\ rng_ \in [1..(MaxHeight - 1) -> DrawVals]
    /\ op = "new"
    /\ arg = 0
    /\ ret = FALSE
    /\ status = "ok"
    /\ depth = 0
    /\ freed = 0
    /\ held = 0
    /\ set = {}
    /\ setRet = FALSE
    /\ snap = <<>>
    /\ other = <<>>

\* A call can be made unless an earlier one never returned normally or by
\* exception.
Callable == status \in {"ok", "throw"}

\* The state a call leaves behind.
Returns(name, k, r) ==
    /\ heap' = r.heap
    /\ size_' = r.size_
    /\ rng_' \in Refill(r.rng_)
    /\ op' = name
    /\ arg' = k
    /\ status' = r.status
    /\ depth' = r.depth
    /\ freed' = Cardinality(DOMAIN heap \ DOMAIN r.heap)
    /\ held' = r.held
    /\ UNCHANGED other

CallInsert(k) ==
    /\ Callable
    /\ Contains(Cur, k).ret \/ Addr \ DOMAIN heap # {}
    /\ \E r \in {Insert(Cur, k)} : Returns("Insert", k, r) /\ ret' = r.ret
    /\ set' = set \cup {k}
    /\ setRet' = (k \notin set)
    /\ snap' = <<ChainKeys(heap, 0)>>

CallErase(k) ==
    /\ Callable
    /\ \E r \in {Erase(Cur, k)} : Returns("Erase", k, r) /\ ret' = r.ret
    /\ set' = set \ {k}
    /\ setRet' = (k \in set)
    /\ snap' = IF op = "Insert" /\ arg = k THEN snap ELSE <<>>

CallContains(k) ==
    /\ Callable
    /\ \E r \in {Contains(Cur, k)} : Returns("Contains", k, r) /\ ret' = r.ret
    /\ UNCHANGED set
    /\ setRet' = (k \in set)
    /\ snap' = <<>>

CallClear ==
    /\ Callable
    /\ Returns("Clear", 0, Clear(Cur))
    /\ ret' = FALSE
    /\ set' = {}
    /\ setRet' = FALSE
    /\ snap' = <<>>

CallSize ==
    /\ Callable
    /\ Returns("Size", 0, Cur @@ [status |-> "ok", depth |-> 0, held |-> 0])
    /\ ret' = Size(Cur)
    /\ UNCHANGED set
    /\ setRet' = Cardinality(set)
    /\ snap' = <<>>

CallEmpty ==
    /\ Callable
    /\ Returns("Empty", 0, Cur @@ [status |-> "ok", depth |-> 0, held |-> 0])
    /\ ret' = Empty(Cur)
    /\ UNCHANGED set
    /\ setRet' = (set = {})
    /\ snap' = <<>>

CallPrint ==
    /\ Callable
    /\ Returns("Print", 0, SkipListPrint(Cur))
    /\ ret' = FALSE
    /\ UNCHANGED set
    /\ setRet' = FALSE
    /\ snap' = <<>>

Next ==
    \/ \E k \in Keys : CallInsert(k)
    \/ \E k \in Keys : CallErase(k)
    \/ \E k \in Keys : CallContains(k)
    \/ CallClear
    \/ CallSize
    \/ CallEmpty
    \/ CallPrint

Spec == Init /\ [][Next]_vars

\* ------------------------------------------------------------------ claims
Levels == 0..(MaxHeight - 1)

\* The nodes of the container: the live objects other than the header.
Nodes == DOMAIN heap \ {header_}

\* The set of addresses on the level-L chain.
OnLevel(L) == LET c == Chain(heap, L) IN {c[j] : j \in 1..Len(c)}

\* Neither key compares less than the other.
Equivalent(a, b) == ~compare_(a, b) /\ ~compare_(b, a)

\* A sequence of keys is strictly increasing under the comparator.
Ascending(ks) == \A i, j \in 1..Len(ks) : i < j => compare_(ks[i], ks[j])

\* C1: after any sequence of Insert, Erase and Clear calls the chain reached
\* from the header is strictly increasing under the comparator at every
\* level; the level-0 scan is strictly ascending, with no two equivalent keys.
C1_ChainsAscending ==
    /\ \A L \in Levels : Ascending(ChainKeys(heap, L))
    /\ LET ks == ChainKeys(heap, 0)
       IN  \A i, j \in 1..Len(ks) : i # j => ~Equivalent(ks[i], ks[j])

\* An Erase has just removed a key from between others: three keys were
\* linked, two of them also above level 0.
C1_Witness ==
    /\ op = "Erase" /\ ret = TRUE
    /\ Len(Chain(heap, 0)) = MaxKey - 1
    /\ Len(Chain(heap, 1)) >= 2

\* C2: the container agrees with a mathematical set run side by side: every
\* call returns what the set returns, Size() is the set's cardinality and
\* Contains(k) holds exactly for the members of the set.
C2_AgreesWithSet ==
    /\ status = "ok"
    /\ ret = setRet
    /\ Size(Cur) = Cardinality(set)
    /\ \A k \in Keys : Contains(Cur, k).ret = (k \in set)

\* A duplicate Insert was refused while the set held every key.
C2_Witness ==
    /\ op = "Insert" /\ ret = FALSE
    /\ set = Keys
    /\ size_ = MaxKey

\* C3: Size() is the number of nodes reachable from the header at level 0,
\* and Empty() is true exactly when that number is zero.
C3_SizeIsLevel0Length ==
    /\ Size(Cur) = Len(Chain(heap, 0))
    /\ Empty(Cur) = (Len(Chain(heap, 0)) = 0)
    /\ op = "Size" => ret = Len(Chain(heap, 0))
    /\ op = "Empty" => ret = (Len(Chain(heap, 0)) = 0)

\* Clear has just emptied a container that held nodes.
C3_Witness ==
    /\ op = "Clear" /\ freed >= 2
    /\ Len(Chain(heap, 0)) = 0

\* C4: level membership is nested: a node on the level-L chain (L > 0) is on
\* the level-(L-1) chain, and a node of height h is on exactly the chains of
\* levels 0..h-1.
C4_LevelsNested ==
    /\ \A L \in Levels : L > 0 => OnLevel(L) \subseteq OnLevel(L - 1)
    /\ \A p \in Nodes : \A L \in Levels : (p \in OnLevel(L)) <=> (L < Height(heap, p))

\* An Insert has linked a node of full height between shorter ones.
C4_Witness ==
    /\ op = "Insert" /\ ret = TRUE
    /\ \E p \in Nodes : /\ Height(heap, p) = MaxHeight
                        /\ Key(heap, p) = arg
                        /\ \E q \in Nodes : Key(heap, q) < arg /\ Height(heap, q) < MaxHeight
                        /\ \E q \in Nodes : Key(heap, q) > arg /\ Height(heap, q) > 1

\* Some node on the level-0 chain holds a key equivalent to k.
Present(h, k) == LET ks == ChainKeys(h, 0) IN \E j \in 1..Len(ks) : Equivalent(ks[j], k)

\* The keys of ks that are not equivalent to k, in order.
Others(ks, k) == LET Other(x) == ~Equivalent(x, k) IN SelectSeq(ks, Other)

\* C5: Insert(k) when a key equivalent to k is present returns false and is a
\* no-op: the count and every forward reference of the header and of every
\* node are unchanged.
C5_DuplicateInsertNoOp ==
    [][(op' = "Insert" /\ Present(heap, arg'))
         => (ret' = FALSE /\ status' = "ok" /\ size_' = size_ /\ heap' = heap)]_vars

\* A duplicate of a key held by a node of height 1, which only the level-0
\* scan meets, was refused.
C5_Witness ==
    /\ op = "Insert" /\ ret = FALSE
    /\ \E p \in Nodes : Key(heap, p) = arg /\ Height(heap, p) = 1
    /\ size_ >= 2

\* C6: Erase(k) when no key equivalent to k is present returns false and is a
\* no-op: the count and every forward reference of the header and of every
\* node are unchanged.
C6_AbsentEraseNoOp ==
    [][(op' = "Erase" /\ ~Present(heap, arg'))
         => (ret' = FALSE /\ status' = "ok" /\ size_' = size_ /\ heap' = heap)]_vars

\* An Erase of a key that lies between two present keys was refused.
C6_Witness ==
    /\ op = "Erase" /\ ret = FALSE
    /\ ~Present(heap, arg)
    /\ \E p, q \in Nodes : Key(heap, p) < arg /\ arg < Key(heap, q)

\* C7: Insert(k) followed by Erase(k) leaves Contains(k) false and leaves
\* every other key that was there before present, in the same relative order
\* in the level-0 scan.
C7_InsertThenErase ==
    (op = "Erase" /\ snap # <<>>) =>
        /\ status = "ok"
        /\ ~Contains(Cur, arg).ret
        /\ ChainKeys(heap, 0) = Others(snap[1], arg)
        /\ LET ks == Others(snap[1], arg)
           IN  \A j \in 1..Len(ks) : Contains(Cur, ks[j]).ret

\* A key new to the container was inserted between two others and erased.
C7_Witness ==
    /\ op = "Erase" /\ ret = TRUE /\ snap # <<>>
    /\ \A i \in 1..Len(snap[1]) : ~Equivalent(snap[1][i], arg)
    /\ Len(snap[1]) = MaxKey - 1
    /\ \E i, j \in 1..Len(snap[1]) : snap[1][i] < arg /\ arg < snap[1][j]
    /\ Len(Chain(heap, 1)) >= 1

\* C8: Clear() completes without failure, sets Size() to 0 and makes
\* Contains(k) false for every key; it destroys the nodes one at a time, no
\* node's destructor running inside another's, whatever their number.
C8_ClearEmpties ==
    op = "Clear" =>
        /\ status = "ok"
        /\ Size(Cur) = 0
        /\ \A k \in Keys : ~Contains(Cur, k).ret
        /\ depth <= 1

\* Clear has torn down a container that held every key.
C8_Witness ==
    /\ op = "Clear" /\ status = "ok"
    /\ freed = MaxKey

\* C9: Contains(k) performs no mutation: the count, every forward reference
\* of the header and of every node, and the sampler's state are the same
\* after the call as before it.
C9_ContainsIsPure ==
    [][op' = "Contains" => (heap' = heap /\ size_' = size_ /\ rng_' = rng_)]_vars

\* Contains has found a key in a full container.
C9_Witness ==
    /\ op = "Contains" /\ ret = TRUE
    /\ size_ = MaxKey
    /\ Len(Chain(heap, MaxHeight - 1)) >= 1

\* ------------------------------------------------------ a node on its own
\* One SkipNode of any height with any links, on which Next and SetNext are
\* called with any level.
InitNode ==
    /\ \E p \in {MaxKey + 1}, key \in {MaxKey}, height \in 1..MaxHeight :
         \E links \in [1..height -> {nullptr} \cup Addr] :
            heap = [a \in {p} |-> [key_ |-> key, links_ |-> links]]
    /\ size_ = 0
    /\ rng_ = <<>>
    /\ op = "new"
    /\ arg = <<0, nullptr>>
    /\ ret = nullptr
    /\ status = "ok"
    /\ depth = 0
    /\ freed = 0
    /\ held = 0
    /\ set = {}
    /\ setRet = FALSE
    /\ snap = <<>>
    /\ other = <<>>

CallNext(p, level) ==
    /\ op' = "Next"
    /\ arg' = <<level, nullptr>>
    /\ ret' = SkipNodeNext(heap, p, level)
    /\ status' = IF SkipNodeNext(heap, p, level) = Thrown THEN "throw" ELSE "ok"
    /\ UNCHANGED <<heap, size_, rng_, depth, freed, held, set, setRet, snap, other>>

CallSetNext(p, level, node) ==
    /\ op' = "SetNext"
    /\ arg' = <<level, node>>
    /\ ret' = nullptr
    /\ \E s \in {SetNext([heap |-> heap, status |-> "ok"], p, level, node)} :
          heap' = s.heap /\ status' = s.status
    /\ UNCHANGED <<size_, rng_, depth, freed, held, set, setRet, snap, other>>

NextNode ==
    \/ \E p \in DOMAIN heap, level \in 0..(MaxHeight + 1) : CallNext(p, level)
    \/ \E p \in DOMAIN heap, level \in 0..(MaxHeight + 1) :
          \E node \in {nullptr} \cup Addr : CallSetNext(p, level, node)

SpecNode == InitNode /\ [][NextNode]_vars

\* C10: on a node of height h, Next(level) and SetNext(level, node) with
\* level >= h report the out-of-range fault and neither read nor change a
\* link; with level < h, Next returns the stored link and SetNext changes the
\* link at that level alone.
C10_LevelChecked ==
    [][\A p \in DOMAIN heap :
         LET h == Height(heap, p)
             level == arg'[1]
         IN  /\ op' = "Next" =>
                  /\ heap' = heap
                  /\ IF level >= h
                     THEN status' = "throw" /\ ret' = Thrown
                     ELSE status' = "ok" /\ ret' = heap[p].links_[level + 1]
             /\ op' = "SetNext" =>
                  IF level >= h
                  THEN status' = "throw" /\ heap' = heap
                  ELSE /\ status' = "ok"
                       /\ heap' = [heap EXCEPT ![p].links_[level + 1] = arg'[2]]]_vars

\* SetNext was called two levels above a node's last one, and refused.
C10_Witness ==
    /\ op = "SetNext" /\ status = "throw"
    /\ \E p \in DOMAIN heap : arg[1] > Height(heap, p)
    /\ arg[2] # nullptr

\* ------------------------------------------- two containers, the same calls
\* An object of another owner, alive for the whole run: with it in the way the
\* allocator hands the second container other addresses than the first.
Foreign == [key_ |-> 0, links_ |-> <<>>]

\* Two containers of the same MaxHeight, comparator and Seed: the sampler of
\* each starts at the same place of the same stream of outputs.
InitPair ==
    /\ heap = [a \in {header_} |-> NewNode(MaxHeight, 0)]
    /\ size_ = 0
    /\ rng_ \in [1..MaxDraws -> DrawVals]
    /\ op = "new"
    /\ arg = 0
    /\ ret = FALSE
    /\ status = "ok"
    /\ depth = 0
    /\ freed = 0
    /\ held = 0
    /\ set = {}
    /\ setRet = FALSE
    /\ snap = <<>>
    /\ other = [heap |-> [a \in {header_, 1} |->
                            IF a = header_ THEN NewNode(MaxHeight, 0) ELSE Foreign],
                size_ |-> 0, rng_ |-> rng_, ret |-> FALSE, status |-> "ok"]

\* The second container's state as the operations take it.
Oth == [heap |-> other.heap, size_ |-> other.size_, rng_ |-> other.rng_]

\* The states the same call leaves behind in the two containers.
Both(name, k, r, ro) ==
    /\ Callable /\ other.status \in {"ok", "throw"}
    /\ heap' = r.heap
    /\ size_' = r.size_
    /\ rng_' = r.rng_
    /\ op' = name
    /\ arg' = k
    /\ ret' = r.ret
    /\ status' = r.status
    /\ depth' = r.depth
    /\ freed' = Cardinality(DOMAIN heap \ DOMAIN r.heap)
    /\ held' = r.held
    /\ other' = [heap |-> ro.heap, size_ |-> ro.size_, rng_ |-> ro.rng_,
                 ret |-> ro.ret, status |-> ro.status]
    /\ UNCHANGED <<set, setRet, snap>>

\* Insert needs a free address and, of the stream followed, the outputs
\* RandomHeight may draw, in each container.
PairInsert(k) ==
    /\ \/ Contains(Cur, k).ret /\ Contains(Oth, k).ret
       \/ /\ Addr \ DOMAIN heap # {} /\ Addr \ DOMAIN other.heap # {}
          /\ Len(rng_) >= MaxHeight - 1 /\ Len(other.rng_) >= MaxHeight - 1
    /\ \E r \in {Insert(Cur, k)}, ro \in {Insert(Oth, k)} : Both("Insert", k, r, ro)

PairErase(k) ==
    \E r \in {Erase(Cur, k)}, ro \in {Erase(Oth, k)} : Both("Erase", k, r, ro)

PairContains(k) ==
    \E r \in {Contains(Cur, k)}, ro \in {Contains(Oth, k)} : Both("Contains", k, r, ro)

PairClear == Both("Clear", 0, Clear(Cur), Clear(Oth))

NextPair ==
    \/ \E k \in Keys : PairInsert(k)
    \/ \E k \in Keys : PairErase(k)
    \/ \E k \in Keys : PairContains(k)
    \/ PairClear

SpecPair == InitPair /\ [][NextPair]_vars

\* The links of p as the keys they lead to (nullptr for an absent one).
LinkKeys(h, p) ==
    [l \in 1..Height(h, p) |->
        IF h[p].links_[l] \in DOMAIN h THEN Key(h, h[p].links_[l]) ELSE h[p].links_[l]]

\* The key, height and links of the header and of every node of the level-0
\* chain, addresses left out.
Shape(h) ==
    LET c == Chain(h, LOWEST_LEVEL)
    IN  {<<Key(h, p), Height(h, p), LinkKeys(h, p)>> :
            p \in {header_} \cup {c[j] : j \in 1..Len(c)}}

InitRandomHeight ==
    /\ heap = [a \in {header_} |-> NewNode(MaxHeight, 0)]
    /\ size_ = 0
    /\ rng_ \in [1..MaxDraws -> RawVals]
    /\ op = "new"
    /\ arg = 0
    /\ ret = 0
    /\ status = "ok"
    /\ depth = 0
    /\ freed = 0
    /\ held = 0
    /\ set = {}
    /\ setRet = FALSE
    /\ snap = <<>>
    /\ other = <<>>

\* RandomHeight is called while the stream followed holds the outputs it may
\* draw; snap keeps the stream as it was before the call.
CallRandomHeight ==
    /\ Len(rng_) >= MaxHeight - 1
    /\ \E r \in {RandomHeight(rng_)} : ret' = r.height /\ rng_' = r.rng_
    /\ op' = "RandomHeight"
    /\ snap' = <<rng_>>
    /\ UNCHANGED <<heap, size_, arg, status, depth, freed, held, set, setRet, other>>

NextRandomHeight == CallRandomHeight

SpecRandomHeight == InitRandomHeight /\ [][NextRandomHeight]_vars

\* How many outputs at the start of the stream are multiples of the branching
\* factor, one after the other.
LeadingMultiples(stream) ==
    CHOOSE n \in 0..Len(stream) :
        /\ \A i \in 1..n : stream[i] % branching_factor = 0
        /\ n = Len(stream) \/ stream[n + 1] % branching_factor # 0

\* C12: RandomHeight returns a height in [1, MaxHeight], equal to 1 plus the
\* number of consecutive draws from the start of the call that are multiples
\* of 4; it stops at the first draw that is not one, or as soon as the height
\* reaches MaxHeight, and then takes no further draw.
C12_RandomHeight ==
    op = "RandomHeight" =>
        LET before == snap[1]
            lead == LeadingMultiples(before)
            drawn == Len(before) - Len(rng_)
        IN  /\ ret \in 1..MaxHeight
            /\ ret = IF lead + 1 < MaxHeight THEN lead + 1 ELSE MaxHeight
            /\ drawn = IF lead + 1 < MaxHeight THEN lead + 1 ELSE MaxHeight - 1
            /\ rng_ = SubSeq(before, drawn + 1, Len(before))

\* RandomHeight stopped at MaxHeight with a multiple of 4 next in the stream,
\* which it left undrawn.
C12_Witness ==
    /\ op = "RandomHeight" /\ ret = MaxHeight
    /\ Len(snap[1]) = MaxDraws
    /\ Len(rng_) = MaxDraws - (MaxHeight - 1)
    /\ rng_[1] % branching_factor = 0

\* ------------------------------------------------- what a call leaves alone
\* The last node of the level-L chain of h whose key is less than k, or the
\* header when there is none.
PredAt(h, L, k) ==
    LET c == Chain(h, L)
        lt == {j \in 1..Len(c) : compare_(Key(h, c[j]), k)}
    IN  IF lt = {} THEN header_ ELSE c[CHOOSE j \in lt : \A i \in lt : i <= j]

\* The link of p at level L.
Link(h, p, L) == h[p].links_[L + 1]

\* C13: a successful Insert(k) with sampled height h links the new node at
\* exactly the levels 0..h-1. At each such level L the new node comes right
\* after the last node (or the header) whose key is less than k at level L and
\* takes over that predecessor's former link; the node popped from the record
\* to splice level L is that predecessor. Links at levels >= h, and links of
\* nodes other than those predecessors, are unchanged.
C13_InsertSplices ==
    [][(op' = "Insert" /\ ret' = TRUE) =>
         \E n \in DOMAIN heap' \ DOMAIN heap, h \in {RandomHeight(rng_).height},
            pred \in {[L \in Levels |-> PredAt(heap, L, arg')]},
            used \in {Insert(Cur, arg').used} :
                /\ DOMAIN heap' = DOMAIN heap \cup {n}
                /\ heap'[n].key_ = arg' /\ Height(heap', n) = h
                /\ \A L \in 0..(h - 1) :
                      /\ Link(heap', pred[L], L) = n
                      /\ Link(heap', n, L) = Link(heap, pred[L], L)
                      /\ used[L + 1] = pred[L]
                /\ \A p \in DOMAIN heap :
                      /\ heap'[p].key_ = heap[p].key_
                      /\ Height(heap', p) = Height(heap, p)
                      /\ \A L \in 0..(Height(heap, p) - 1) :
                            (L >= h \/ p # pred[L]) => Link(heap', p, L) = Link(heap, p, L)]_vars

\* A node of two levels or more was spliced between nodes, with a different
\* predecessor at level 1 than at level 0.
C13_Witness ==
    /\ op = "Insert" /\ ret = TRUE
    /\ \E n \in Nodes :
          /\ Key(heap, n) = arg /\ Height(heap, n) >= 2
          /\ Link(heap, n, 0) # nullptr
          /\ \E p, q \in DOMAIN heap : p # q /\ Link(heap, q, 0) = n
                                        /\ Height(heap, p) >= 2 /\ Link(heap, p, 1) = n

\* C14: a successful Erase(k) of a target of height t changes, for each level
\* L in 0..t-1, only the link at L of the target's level-L predecessor, which
\* becomes the target's former link at L. Links at levels >= t and links of
\* nodes other than those predecessors and the target are unchanged, and
\* Size() goes down by exactly one.
C14_EraseUnsplices ==
    [][(op' = "Erase" /\ ret' = TRUE) =>
         \E target \in DOMAIN heap \ DOMAIN heap',
            pred \in {[L \in Levels |-> PredAt(heap, L, arg')]} :
            LET t == Height(heap, target)
            IN  /\ DOMAIN heap' = DOMAIN heap \ {target}
                /\ Equivalent(Key(heap, target), arg')
                /\ \A L \in 0..(t - 1) : Link(heap', pred[L], L) = Link(heap, target, L)
                /\ \A p \in DOMAIN heap' :
                      /\ heap'[p].key_ = heap[p].key_
                      /\ Height(heap', p) = Height(heap, p)
                      /\ \A L \in 0..(Height(heap, p) - 1) :
                            (L >= t \/ p # pred[L]) => Link(heap', p, L) = Link(heap, p, L)
                /\ size_' = size_ - 1
                /\ Size([size_ |-> size_']) = Size(Cur) - 1]_vars

\* A node was erased from between a node of one level and a taller one, now
\* neighbours at level 0, the taller one first on the level-1 chain.
C14_Witness ==
    /\ op = "Erase" /\ ret = TRUE /\ freed = 1
    /\ \E p, q \in Nodes :
          /\ Key(heap, p) < arg /\ arg < Key(heap, q)
          /\ Link(heap, p, 0) = q
          /\ Height(heap, p) = 1 /\ Height(heap, q) >= 2
          /\ Link(heap, header_, 1) = q

\* C15: after a successful Erase(k) the erased node is unreachable: no link of
\* the header or of a node, at any level, leads to it, so that its last owner
\* lets it go and it is destroyed; and every link of the erased node itself
\* is absent by then.
C15_ErasedIsCutOff ==
    (op = "Erase" /\ ret = TRUE) =>
        /\ freed = 1
        /\ held = 0
        /\ \A p \in Nodes : ~Equivalent(Key(heap, p), arg)
        /\ \A p \in DOMAIN heap : \A L \in 0..(Height(heap, p) - 1) :
              Link(heap, p, L) \in {nullptr} \cup Nodes

\* The erased node stood between two nodes of full height, so that it had a
\* successor at every one of its levels.
C15_Witness ==
    /\ op = "Erase" /\ ret = TRUE /\ status = "ok"
    /\ \E p, q \in Nodes :
          /\ Key(heap, p) < arg /\ arg < Key(heap, q)
          /\ Height(heap, p) = MaxHeight /\ Height(heap, q) = MaxHeight
          /\ \A L \in Levels : Link(heap, p, L) = q

\* C16: after Clear() every link of the header, at levels 0..MaxHeight-1, is
\* absent, and every node that was in the container has gone with every one
\* of its links absent; the container is then in the state of a newly built
\* empty one, the sampler apart, and answers Insert, Erase and Contains as
\* such.
C16_ClearResets ==
    op = "Clear" =>
        /\ \A L \in 0..(MaxHeight - 1) : Link(heap, header_, L) = nullptr
        /\ Nodes = {}
        /\ held = 0
        /\ heap = [a \in {header_} |-> NewNode(MaxHeight, 0)]
        /\ size_ = 0
        /\ \A k \in Keys : /\ ~Contains(Cur, k).ret
                            /\ ~Erase(Cur, k).ret
                            /\ Insert(Cur, k).ret
                            /\ Insert(Cur, k).size_ = 1

\* Clear has let go of two nodes or more, one after the other.
C16_Witness ==
    /\ op = "Clear" /\ freed >= 2 /\ depth = 1
    /\ Empty(Cur)

\* C17: no operation of the container raises the out-of-range fault or reads
\* an empty record of predecessors: every Next and SetNext call of Contains,
\* Insert, Erase, Clear and Print is made with a level below the node's
\* height, and the record is not empty when Insert or Erase pops it.
C17_NoFault ==
    /\ status # "throw" /\ status # "ub"
    /\ SkipListPrint(Cur).status \notin {"throw", "ub"}

\* An Insert of a node of full height popped three different predecessors,
\* one for each level.
C17_Witness ==
    /\ op = "Insert" /\ ret = TRUE /\ status = "ok"
    /\ \E n, p, q \in Nodes :
          /\ Key(heap, n) = arg /\ Height(heap, n) = MaxHeight
          /\ p # q /\ Link(heap, q, 0) = n /\ Height(heap, q) = 1
          /\ Height(heap, p) >= 2 /\ Link(heap, p, 1) = n
          /\ Link(heap, header_, MaxHeight - 1) = n

\* C18: every Contains, Insert, Erase and Clear call started in a reachable
\* state runs to completion: no call made has failed to return, and the chain
\* of every level is finite and without a cycle, no node coming twice on it.
C18_Terminates ==
    /\ status # "hang"
    /\ \A L \in Levels :
          LET c == Chain(heap, L)
          IN  /\ Len(c) <= Cardinality(Nodes)
              /\ \A i, j \in 1..Len(c) : c[i] = c[j] => i = j
              /\ Len(c) > 0 => Link(heap, c[Len(c)], L) = nullptr

\* Every level holds a chain of at least two nodes, which the calls walk.
C18_Witness ==
    /\ status = "ok" /\ op \in {"Insert", "Erase"} /\ ret = TRUE
    /\ \A L \in Levels : Len(Chain(heap, L)) >= 2

\* C19: the sampler's state advances only inside an accepted Insert:
\* Contains, Size, Empty, Clear, Print, every Erase and every refused Insert
\* take no draw and leave it as it was, while an accepted Insert leaves the
\* outputs that follow the draws RandomHeight took for the new node. The
\* height of a new node so depends on the seed and on the accepted Inserts
\* before it alone.
C19_DrawsOnlyOnInsert ==
    [][IF op' = "Insert" /\ ret' = TRUE
       THEN LET rh == RandomHeight(rng_)
            IN  /\ Len(rh.rng_) < Len(rng_)
                /\ SubSeq(rng_', 1, Len(rh.rng_)) = rh.rng_
                /\ \E n \in DOMAIN heap' \ DOMAIN heap : Height(heap', n) = rh.height
       ELSE rng_' = rng_]_vars

\* A refused Insert came right before an accepted one was possible: the
\* container holds a node, the key was there, and the next draw is a multiple
\* of 4.
C19_Witness ==
    /\ op = "Insert" /\ ret = FALSE
    /\ size_ = 1 /\ Present(heap, arg)
    /\ rng_[1] % branching_factor = 0

====
